---- MODULE Spec2Model ----
(***************************************************************************)
(* Model of protean's repository core                                      *)
(* (src/src/protean/core/repository/base.py): BaseRepository.get, exists,  *)
(* create, update, validate_unique and delete over a backend store that    *)
(* has no unique index of its own.                                         *)
(*                                                                         *)
(* Every call of a backend primitive (_filter_objects, _create_object,     *)
(* _update_object, delete) is one atomic step; the core holds nothing      *)
(* between two of them, so the steps of different callers interleave.      *)
(***************************************************************************)
EXTENDS Integers, Sequences, FiniteSets, TLC

\* ------------------------------------------------------------------ bounds

\* The identifiers the callers use: "1" .. NumIds.
NumIds == 2

\* The most records a queried store holds, and the last page asked for.
MaxRecords == 5
MaxPage == 3

\* The longest list a list-valued field holds.
MaxRoles == 2

\* ------------------------------------------------------------- the entity

\* The callers (threads) that use the repository.
Callers == {"c1", "c2"}

\* Python's None, and the marker of a key that is absent from a dict.
None == "<None>"
Unset == "<unset>"

\* Field.empty_values: the values validate_unique treats as "no value".
Field_empty_values == {None, ""}

\* The entity type: an identifier, two more unique fields and a field
\* that is not unique, in declaration order.
declared_fields ==
    << [name |-> "id",         unique |-> TRUE,  identifier |-> TRUE],
       [name |-> "name",       unique |-> TRUE,  identifier |-> FALSE],
       [name |-> "email",      unique |-> TRUE,  identifier |-> FALSE],
       [name |-> "created_by", unique |-> FALSE, identifier |-> FALSE] >>

FieldNames == {declared_fields[i].name : i \in 1..Len(declared_fields)}

\* entity.meta_.unique_fields: the declared fields flagged unique.
unique_fields == SelectSeq(declared_fields, LAMBDA d : d.unique)

\* entity.meta_.id_field[0]: the name of the identifier field.
id_field == (CHOOSE i \in 1..Len(declared_fields) : declared_fields[i].identifier)

IdName == declared_fields[id_field].name

\* The values the callers use for each field.
IDS == {ToString(i) : i \in 1..NumIds}
FieldValues ==
    [id         |-> IDS,
     name       |-> {None, "", "a", "b"},
     email      |-> {None, "x"},
     created_by |-> {"anonymous"}]

\* Entities: one value per declared field.
Entities == [FieldNames -> UNION {FieldValues[f] : f \in FieldNames}]
ValidEntities == {e \in Entities : \A f \in FieldNames : e[f] \in FieldValues[f]}

\* The data of an update: a partial field map. created_by is written when
\* the record is created, and no update carries it.
UpdateData ==
    {d \in [FieldNames -> UNION {FieldValues[f] : f \in FieldNames} \cup {Unset}] :
        /\ \A f \in FieldNames : d[f] \in FieldValues[f] \cup {Unset}
        /\ d["created_by"] = Unset}

NoEntity == [f \in FieldNames |-> None]
NoData == [f \in FieldNames |-> Unset]

\* ------------------------------------------------------ schema conversion

\* The column of a field in a backend record.
ColumnOf(f) == CHOOSE i \in 1..Len(declared_fields) : declared_fields[i].name = f

\* Schema.from_entity: the backend record of an entity, one column per
\* declared field.
from_entity(e) == [i \in 1..Len(declared_fields) |-> e[declared_fields[i].name]]

\* Schema.to_entity: the entity of a backend record.
to_entity(row) == [f \in FieldNames |-> row[ColumnOf(f)]]

\* Entity.update(data): applies a partial field map.
entity_update(e, data) ==
    [f \in FieldNames |-> IF data[f] = Unset THEN e[f] ELSE data[f]]

\* ------------------------------------------------------- Python values

\* An order_by value: a tuple or list of keys, a str, None, or another
\* object (a key that is not a str). val holds the keys, or the one value.
PyTuple(keys) == [kind |-> "tuple", val |-> keys]
PyStr(str) == [kind |-> "str", val |-> <<str>>]
PyNone == [kind |-> "none", val |-> <<>>]
PyObj(o) == [kind |-> "obj", val |-> <<o>>]

\* bool(x)
Truthy(x) ==
    CASE x.kind = "tuple" -> x.val # <<>>
      [] x.kind = "str" -> x.val # <<"">>
      [] x.kind = "none" -> FALSE
      [] OTHER -> TRUE

\* isinstance(x, collections.Iterable): a str is iterable too.
IsIterable(x) == x.kind \in {"tuple", "str"}

\* [x]
ListOf(x) == PyTuple(x.val)

\* -------------------------------------------------------- schema options

\* The classes a Meta can name as its entity, and a value that is no class.
EntityClasses == {"Role", "ThreadedDog"}
OtherClasses == {"dict"}
NonClasses == {"'Role'"}

\* The names of the schema classes.
SchemaClasses == {"RoleSchema", "ThreadedDogModel"}

\* inflection.underscore
underscore(cls_name) ==
    CASE cls_name = "RoleSchema" -> "role_schema"
      [] cls_name = "ThreadedDogModel" -> "threaded_dog_model"

\* The schema classes: the name of the class and the options its class
\* Meta declares; Unset is an option left out.
Metas ==
    [cls : SchemaClasses,
     entity : EntityClasses \cup OtherClasses \cup NonClasses \cup {None, Unset},
     schema_name : {Unset, "", "roles"},
     bind : {Unset, "replica"},
     order_by : {[set |-> FALSE, value |-> PyTuple(<<>>)],
                 [set |-> TRUE, value |-> PyTuple(<<"created_by">>)],
                 [set |-> TRUE, value |-> PyTuple(<<"-id">>)]}]

\* getattr(meta, name, default)
getattr(m, name, default) == IF m[name] = Unset THEN default ELSE m[name]

Resolved(error, entity_cls, schema_name, bind, order_by) ==
    [error |-> error, entity_cls |-> entity_cls, schema_name |-> schema_name,
     bind |-> bind, order_by |-> order_by]

\* RepositorySchemaOpts.__init__(meta, schema_cls)
RepositorySchemaOpts(m, schema_cls) ==
    LET entity_cls == getattr(m, "entity", None)
        declared_name == getattr(m, "schema_name", None)
        schema_name == IF declared_name \in {None, ""}
                          THEN underscore(schema_cls) ELSE declared_name
        bind == getattr(m, "bind", "default")
        order_by == IF m.order_by.set THEN m.order_by.value ELSE PyTuple(<<>>)
    IN  IF entity_cls = None
           THEN Resolved("ConfigurationError", None, None, None, PyTuple(<<>>))
        ELSE IF entity_cls \notin EntityClasses \cup OtherClasses
           \* issubclass() of a value that is no class
           THEN Resolved("TypeError", None, None, None, PyTuple(<<>>))
        ELSE IF entity_cls \notin EntityClasses
           THEN Resolved("ConfigurationError", None, None, None, PyTuple(<<>>))
        ELSE Resolved("none", entity_cls, schema_name, bind, order_by)

\* The schema the repository is built with.
RoleMeta ==
    [cls |-> "RoleSchema", entity |-> "Role", schema_name |-> Unset, bind |-> Unset,
     order_by |-> [set |-> FALSE, value |-> PyTuple(<<>>)]]

\* ------------------------------------------------------------ pagination

\* Pagination: a page of a query's results.
Pagination(page, per_page, total, items) ==
    [page |-> page, per_page |-> per_page, total |-> total, items |-> items]

\* ------------------------------------------------------------------ state

VARIABLES
    store,      \* the backend's records, in insertion order
    pc,         \* where each caller is in its operation
    op,         \* the operation each caller runs and its arguments
    entity,     \* the entity the operation holds
    filters,    \* validate_unique: the filters it has not looked up yet
    excludes,   \* validate_unique: the exclude-set
    calls,      \* the calls the operation has made so far
    result,     \* the outcome of the operation
    raced,      \* some operation ran while another one was in progress
    meta,       \* the options the schema class declares (class Meta)
    opts,       \* the schema's resolved options (RepositorySchemaOpts)
    query,      \* filter and exists: the arguments given and those passed on
    paged,      \* filter: the Pagination it returns
    context,    \* the ambient context of each thread
    conv,       \* a schema conversion in progress
    released    \* the unique values the writes took out of the store

\* The state of the schema, of the queries, of the context and of the
\* conversions, and the record of the released values.
rest == <<meta, opts, query, paged, context, conv, released>>

vars == <<store, pc, op, entity, filters, excludes, calls, result, raced,
          meta, opts, query, paged, context, conv, released>>

\* A call made by the core: the callee, its filters and excludes (for a
\* query), the entity it was given or returned, and what it returned.
Call(callee, flt, exc, ent, ret) ==
    [call |-> callee, flt |-> flt, exc |-> exc, ent |-> ent, ret |-> ret]

NoResult == [status |-> "none", field |-> None, ent |-> NoEntity]
Ok(e) == [status |-> "ok", field |-> None, ent |-> e]
\* field_obj.fail('unique', ...): a ValidationError keyed by the field.
ValidationError(f) == [status |-> "ValidationError", field |-> f, ent |-> NoEntity]
ObjectNotFoundError == [status |-> "ObjectNotFoundError", field |-> None, ent |-> NoEntity]
BackendError == [status |-> "BackendError", field |-> None, ent |-> NoEntity]

NoOp == [kind |-> "none", identifier |-> None, data |-> NoData]

\* The arguments of a query.
Query(page, per_page, order_by, excl, flt) ==
    [page |-> page, per_page |-> per_page, order_by |-> order_by,
     excl |-> excl, flt |-> flt]

NoQuery == [given |-> Query(0, 0, PyNone, {}, {}), sent |-> Query(0, 0, PyNone, {}, {})]
NoPage == [error |-> FALSE, page |-> Pagination(0, 0, 0, <<>>)]

\* The record of the released values: kept where on is set, and empty at
\* the start.
NoHistory == [on |-> FALSE, values |-> {}]
History == [on |-> TRUE, values |-> {}]

NoConv == [stage |-> "none", schema |-> None, e |-> <<>>, record |-> <<>>, back |-> <<>>]

\* ------------------------------------------------------ backend primitives

DefaultPage == 1
DefaultPerPage == 10

Min(a, b) == IF a < b THEN a ELSE b

\* A record matches every filter and is not shut out by the excludes.
Matches(row, excl, flt) ==
    /\ \A p \in flt : row[ColumnOf(p[1])] = p[2]
    /\ ~ (excl # {} /\ \A p \in excl : row[ColumnOf(p[1])] = p[2])

\* The order of the values of a column: identifiers by number, then None
\* and the strings in alphabetical order.
Collation == <<None, "", "a", "anonymous", "b", "c1", "c2", "x">>
Rank(v) ==
    IF \E i \in 1..(NumIds + MaxRecords) : ToString(i) = v
       THEN CHOOSE i \in 1..(NumIds + MaxRecords) : ToString(i) = v
       ELSE NumIds + MaxRecords
                + (CHOOSE k \in 1..Len(Collation) : Collation[k] = v)

\* iter(str): the characters of a string.
Chars(str) ==
    CASE str = "" -> <<>>
      [] str = "id" -> <<"i", "d">>
      [] str = "-id" -> <<"-", "i", "d">>
      [] str = "created_by" -> <<"c", "r", "e", "a", "t", "e", "d", "_", "b", "y">>

\* The keys the backend finds when it walks the order_by it is given.
KeysOf(order_by) ==
    CASE order_by.kind = "tuple" -> order_by.val
      [] order_by.kind = "str" -> Chars(order_by.val[1])
      [] OTHER -> <<>>

\* A key is a field name, with a "-" before it for descending order.
ValidKey(key) == \E f \in FieldNames : key \in {f, "-" \o f}
Descending(key) == \E f \in FieldNames : key = "-" \o f
FieldOf(key) == CHOOSE f \in FieldNames : key \in {f, "-" \o f}

\* The backend cannot order by what it is given.
Rejects(order_by) ==
    \/ ~ IsIterable(order_by)
    \/ \E k \in 1..Len(KeysOf(order_by)) : ~ ValidKey(KeysOf(order_by)[k])

\* Record a comes before record b under the keys.
RECURSIVE Before(_, _, _)
Before(a, b, keys) ==
    IF keys = <<>> THEN FALSE
    ELSE LET ra == Rank(a[ColumnOf(FieldOf(Head(keys)))])
             rb == Rank(b[ColumnOf(FieldOf(Head(keys)))])
         IN  IF ra = rb THEN Before(a, b, Tail(keys))
             ELSE IF Descending(Head(keys)) THEN ra > rb ELSE ra < rb

\* The records in the order of the keys; records that compare equal keep
\* the order they are stored in.
RECURSIVE ordered(_, _)
ordered(rows, keys) ==
    IF rows = <<>> THEN <<>>
    ELSE LET front == ordered(SubSeq(rows, 1, Len(rows) - 1), keys)
             row == rows[Len(rows)]
             n == Cardinality({k \in 1..Len(front) : ~ Before(row, front[k], keys)})
         IN  SubSeq(front, 1, n) \o <<row>> \o SubSeq(front, n + 1, Len(front))

\* The matching records in the order asked for.
Matched(order_by, excl, flt) ==
    ordered(SelectSeq(store, LAMBDA row : Matches(row, excl, flt)),
            SelectSeq(KeysOf(order_by), ValidKey))

\* A query primitive that returns every matching record on every page.
_filter_objects_unpaged(page, per_page, order_by, excl, flt) ==
    LET matched == Matched(order_by, excl, flt)
    IN  Pagination(page, per_page, Len(matched), matched)

\* _filter_objects: the page of the matching records and their count.
_filter_objects(page, per_page, order_by, excl, flt) ==
    LET matched == Matched(order_by, excl, flt)
        from == (page - 1) * per_page + 1
        to == Min(page * per_page, Len(matched))
    IN  Pagination(page, per_page, Len(matched), SubSeq(matched, from, to))

\* What the query primitive can answer: with a key it does not know, the
\* backend fails or leaves the key out.
query_results(q) ==
    LET results == _filter_objects(q.page, q.per_page, q.order_by, q.excl, q.flt)
    IN  IF Rejects(q.order_by)
           THEN {[error |-> TRUE, page |-> Pagination(0, 0, 0, <<>>)],
                 [error |-> FALSE, page |-> results]}
           ELSE {[error |-> FALSE, page |-> results]}

\* _create_object: the backend adds the record of the entity.
_create_object(e) == Append(store, from_entity(e))

\* The backend holds a record under the entity's identifier.
Stored(ident) == \E k \in 1..Len(store) : store[k][id_field] = ident

\* _update_object: the backend rewrites the record held under the
\* entity's identifier. With no such record the backend either adds the
\* record or reports the failure and changes nothing.
_update_object(e) ==
    IF Stored(e[IdName])
       THEN {[k \in 1..Len(store) |->
                IF store[k][id_field] = e[IdName] THEN from_entity(e) ELSE store[k]]}
       ELSE {store, Append(store, from_entity(e))}

\* delete: the backend drops the record held under the identifier.
delete(ident) == SelectSeq(store, LAMBDA row : row[id_field] # ident)

\* The non-empty values the records hold in the unique fields.
Held(rows) ==
    {p \in {<<unique_fields[i].name, rows[k][ColumnOf(unique_fields[i].name)]>> :
               i \in 1..Len(unique_fields), k \in 1..Len(rows)} :
        p[2] \notin Field_empty_values}

\* The record of the released values after a write: the values the store
\* held and the written store does not hold are added.
Noted(written) ==
    IF released.on
       THEN [released EXCEPT !.values = @ \cup (Held(store) \ Held(written))]
       ELSE released

\* ------------------------------------------------------------ the core

\* exists that wants more than one match before it answers true.
exists_more_than_one(excl, flt) ==
    LET results == _filter_objects(DefaultPage, DefaultPerPage, PyTuple(<<>>), excl, flt)
    IN  results.total > 1

\* exists that leaves the excludes out of its query.
exists_without_excludes(excl, flt) ==
    LET results == _filter_objects(DefaultPage, DefaultPerPage, PyTuple(<<>>), {}, flt)
    IN  results.items # <<>>

\* exists that also answers true for a value that was once released.
exists_remembering(excl, flt) ==
    LET results == _filter_objects(DefaultPage, DefaultPerPage, PyTuple(<<>>), excl, flt)
    IN  results.items # <<>> \/ flt \cap released.values # {}

\* BaseRepository.exists: whether the query returns anything.
exists(excl, flt) ==
    LET results == _filter_objects(DefaultPage, DefaultPerPage, PyTuple(<<>>), excl, flt)
    IN  results.items # <<>>

\* get that queries without the identifier filter.
get_unfiltered(identifier) ==
    LET flt == {<<IdName, identifier>>}
        results == _filter_objects(DefaultPage, DefaultPerPage, PyTuple(<<>>), {}, {})
        lookup == Call("_filter_objects", flt, {}, NoEntity, "")
    IN  IF results.items = <<>>
           THEN [result |-> ObjectNotFoundError, calls |-> <<lookup>>]
           ELSE LET found == to_entity(Head(results.items))
                IN  [result |-> Ok(found),
                     calls |-> <<lookup, Call("to_entity", {}, {}, found, "")>>]

\* get that answers with an empty entity when no record is found.
get_lenient(identifier) ==
    LET flt == {<<IdName, identifier>>}
        results == _filter_objects(DefaultPage, DefaultPerPage, PyTuple(<<>>), {}, flt)
        lookup == Call("_filter_objects", flt, {}, NoEntity, "")
        found == IF results.items = <<>> THEN NoEntity ELSE to_entity(Head(results.items))
    IN  [result |-> Ok(found),
         calls |-> <<lookup, Call("to_entity", {}, {}, found, "")>>]

\* BaseRepository.get: the query by identifier, then ObjectNotFoundError
\* or the first record as an entity; with the calls it makes.
get(identifier) ==
    LET flt == {<<IdName, identifier>>}
        results == _filter_objects(DefaultPage, DefaultPerPage, PyTuple(<<>>), {}, flt)
        lookup == Call("_filter_objects", flt, {}, NoEntity, "")
    IN  IF results.items = <<>>
           THEN [result |-> ObjectNotFoundError, calls |-> <<lookup>>]
           ELSE LET found == to_entity(Head(results.items))
                IN  [result |-> Ok(found),
                     calls |-> <<lookup, Call("to_entity", {}, {}, found, "")>>]

\* The first loop of validate_unique with one of its branches changed:
\* skip_empty keeps "ignore empty lookup values", on_create and on_update
\* say whether the identifier goes to the excludes, reversed inserts the
\* filters in the opposite order.
build_lookups_variant(e, create, skip_empty, on_create, on_update, reversed) ==
    LET RECURSIVE loop(_, _, _)
        loop(i, flt, excl) ==
            IF i > Len(unique_fields) THEN [filters |-> flt, excludes |-> excl]
            ELSE LET field_name == unique_fields[i].name
                     lookup_value == e[field_name]
                 IN  IF skip_empty /\ lookup_value \in Field_empty_values
                        THEN loop(i + 1, flt, excl)
                     ELSE IF unique_fields[i].identifier
                             /\ ((create /\ on_create) \/ (~create /\ on_update))
                        THEN loop(i + 1, flt, excl \cup {<<field_name, lookup_value>>})
                     ELSE IF reversed
                        THEN loop(i + 1, <<<<field_name, lookup_value>>>> \o flt, excl)
                     ELSE loop(i + 1, Append(flt, <<field_name, lookup_value>>), excl)
    IN  loop(1, <<>>, {})

\* "Ignore identifiers on updates" without its "not create".
build_lookups_excludes_id_on_create(e, create) ==
    build_lookups_variant(e, create, TRUE, TRUE, TRUE, FALSE)

\* Without "Ignore identifiers on updates".
build_lookups_filters_id_on_update(e, create) ==
    build_lookups_variant(e, create, TRUE, FALSE, FALSE, FALSE)

\* Without "Ignore empty lookup values".
build_lookups_keeps_empty(e, create) ==
    build_lookups_variant(e, create, FALSE, FALSE, TRUE, FALSE)

\* The filters in the opposite of the declaration order.
build_lookups_reversed(e, create) ==
    build_lookups_variant(e, create, TRUE, FALSE, TRUE, TRUE)

\* validate_unique, first loop: the filters (in the order they were
\* inserted) and the excludes of the entity's unique fields.
build_lookups(e, create) ==
    LET RECURSIVE loop(_, _, _)
        loop(i, flt, excl) ==
            IF i > Len(unique_fields) THEN [filters |-> flt, excludes |-> excl]
            ELSE LET field_name == unique_fields[i].name
                     lookup_value == e[field_name]
                 IN  IF lookup_value \in Field_empty_values
                        THEN loop(i + 1, flt, excl)
                     ELSE IF ~create /\ unique_fields[i].identifier
                        THEN loop(i + 1, flt, excl \cup {<<field_name, lookup_value>>})
                     ELSE loop(i + 1, Append(flt, <<field_name, lookup_value>>), excl)
    IN  loop(1, <<>>, {})

Busy(c) == pc[c] \in {"validate", "write"}
OthersBusy(c) == \E d \in Callers \ {c} : Busy(d)

\* validate_unique is entered with the entity: its first loop runs, and
\* with nothing to look up it returns at once.
EnterValidate(c, e, create, log) ==
    LET l == build_lookups(e, create) IN
    /\ entity' = [entity EXCEPT ![c] = e]
    /\ filters' = [filters EXCEPT ![c] = l.filters]
    /\ excludes' = [excludes EXCEPT ![c] = l.excludes]
    /\ IF l.filters = <<>>
          THEN /\ pc' = [pc EXCEPT ![c] = "write"]
               /\ calls' = [calls EXCEPT ![c] =
                     Append(log, Call("validate_unique", {}, l.excludes, e, "passed"))]
          ELSE /\ pc' = [pc EXCEPT ![c] = "validate"]
               /\ calls' = [calls EXCEPT ![c] = log]

\* create that goes to _create_object without validate_unique.
CreateStart_unvalidated(c, kwargs) ==
    /\ pc[c] = "idle"
    /\ op' = [op EXCEPT ![c] = [kind |-> "create", identifier |-> None, data |-> kwargs]]
    /\ entity' = [entity EXCEPT ![c] = kwargs]
    /\ pc' = [pc EXCEPT ![c] = "write"]
    /\ calls' = [calls EXCEPT ![c] = <<>>]
    /\ raced' = (raced \/ OthersBusy(c))
    /\ UNCHANGED <<store, result, filters, excludes>>
    /\ UNCHANGED rest

\* create, up to validate_unique: the entity is built from the arguments.
CreateStart(c, kwargs) ==
    /\ pc[c] = "idle"
    /\ op' = [op EXCEPT ![c] = [kind |-> "create", identifier |-> None, data |-> kwargs]]
    /\ EnterValidate(c, kwargs, TRUE, <<>>)
    /\ raced' = (raced \/ OthersBusy(c))
    /\ UNCHANGED <<store, result>>
    /\ UNCHANGED rest

\* update, up to validate_unique: get(identifier), then entity.update(data).
UpdateStart(c, identifier, data) ==
    /\ pc[c] = "idle"
    /\ op' = [op EXCEPT ![c] = [kind |-> "update", identifier |-> identifier, data |-> data]]
    /\ raced' = (raced \/ OthersBusy(c))
    /\ UNCHANGED rest
    /\ LET got == get(identifier)
       IN  IF got.result.status # "ok"
              THEN /\ result' = [result EXCEPT ![c] = got.result]
                   /\ pc' = [pc EXCEPT ![c] = "done"]
                   /\ calls' = [calls EXCEPT ![c] = got.calls]
                   /\ UNCHANGED <<store, entity, filters, excludes>>
              ELSE LET e == entity_update(got.result.ent, data)
                   IN  /\ EnterValidate(c, e, FALSE,
                             Append(got.calls, Call("entity.update", {}, {}, e, "")))
                       /\ UNCHANGED <<store, result>>

\* validate_unique with one exists call over all the filters at once.
ValidateStep_composite(c) ==
    /\ pc[c] = "validate"
    /\ LET flt == {filters[c][k] : k \in 1..Len(filters[c])}
           found == exists(excludes[c], flt)
           log == Append(calls[c],
                     Call("exists", flt, excludes[c], entity[c],
                          IF found THEN "True" ELSE "False"))
       IN  IF found
              THEN /\ result' = [result EXCEPT ![c] = ValidationError(Head(filters[c])[1])]
                   /\ pc' = [pc EXCEPT ![c] = "done"]
                   /\ calls' = [calls EXCEPT ![c] =
                         Append(log, Call("validate_unique", {}, excludes[c],
                                          entity[c], "failed"))]
                   /\ UNCHANGED filters
              ELSE /\ filters' = [filters EXCEPT ![c] = <<>>]
                   /\ UNCHANGED result
                   /\ pc' = [pc EXCEPT ![c] = "write"]
                   /\ calls' = [calls EXCEPT ![c] =
                         Append(log, Call("validate_unique", {}, excludes[c],
                                          entity[c], "passed"))]
    /\ raced' = (raced \/ OthersBusy(c))
    /\ UNCHANGED <<store, op, entity, excludes>>
    /\ UNCHANGED rest

\* validate_unique, second loop: one exists call.
ValidateStep(c) ==
    /\ pc[c] = "validate"
    /\ LET f == Head(filters[c])
           found == exists(excludes[c], {f})
           log == Append(calls[c],
                     Call("exists", {f}, excludes[c], entity[c],
                          IF found THEN "True" ELSE "False"))
       IN  IF found
              THEN /\ result' = [result EXCEPT ![c] = ValidationError(f[1])]
                   /\ pc' = [pc EXCEPT ![c] = "done"]
                   /\ calls' = [calls EXCEPT ![c] =
                         Append(log, Call("validate_unique", {}, excludes[c],
                                          entity[c], "failed"))]
                   /\ UNCHANGED filters
              ELSE /\ filters' = [filters EXCEPT ![c] = Tail(filters[c])]
                   /\ UNCHANGED result
                   /\ IF Tail(filters[c]) = <<>>
                         THEN /\ pc' = [pc EXCEPT ![c] = "write"]
                              /\ calls' = [calls EXCEPT ![c] =
                                    Append(log, Call("validate_unique", {}, excludes[c],
                                                     entity[c], "passed"))]
                         ELSE /\ pc' = [pc EXCEPT ![c] = "validate"]
                              /\ calls' = [calls EXCEPT ![c] = log]
    /\ raced' = (raced \/ OthersBusy(c))
    /\ UNCHANGED <<store, op, entity, excludes>>
    /\ UNCHANGED rest

\* create that serializes the entity itself before it calls the primitive.
CreateWrite_serializes(c) ==
    /\ pc[c] = "write"
    /\ op[c].kind = "create"
    /\ store' = _create_object(entity[c])
    /\ calls' = [calls EXCEPT ![c] =
          calls[c] \o << Call("from_entity", {}, {}, entity[c], ""),
                         Call("_create_object", {}, {}, entity[c], "") >>]
    /\ result' = [result EXCEPT ![c] = Ok(entity[c])]
    /\ pc' = [pc EXCEPT ![c] = "done"]
    /\ raced' = (raced \/ OthersBusy(c))
    /\ UNCHANGED <<op, entity, filters, excludes>>
    /\ UNCHANGED rest

\* create, after validate_unique: _create_object(entity).
CreateWrite(c) ==
    /\ pc[c] = "write"
    /\ op[c].kind = "create"
    /\ store' = _create_object(entity[c])
    /\ calls' = [calls EXCEPT ![c] =
          Append(calls[c], Call("_create_object", {}, {}, entity[c], ""))]
    /\ result' = [result EXCEPT ![c] = Ok(entity[c])]
    /\ pc' = [pc EXCEPT ![c] = "done"]
    /\ raced' = (raced \/ OthersBusy(c))
    /\ UNCHANGED <<op, entity, filters, excludes>>
    /\ UNCHANGED rest

\* update, after validate_unique: _update_object(entity).
UpdateWrite(c) ==
    /\ pc[c] = "write"
    /\ op[c].kind = "update"
    /\ \E written \in _update_object(entity[c]) :
          /\ store' = written
          /\ result' = [result EXCEPT ![c] =
                IF Stored(entity[c][IdName]) \/ written # store
                   THEN Ok(entity[c]) ELSE BackendError]
    /\ calls' = [calls EXCEPT ![c] =
          Append(calls[c], Call("_update_object", {}, {}, entity[c], ""))]
    /\ pc' = [pc EXCEPT ![c] = "done"]
    /\ raced' = (raced \/ OthersBusy(c))
    /\ released' = Noted(store')
    /\ UNCHANGED <<op, entity, filters, excludes>>
    /\ UNCHANGED <<meta, opts, query, paged, context, conv>>

\* delete(identifier): the backend's primitive, with no validation.
Delete(c, identifier) ==
    /\ pc[c] = "idle"
    /\ op' = [op EXCEPT ![c] = [kind |-> "delete", identifier |-> identifier, data |-> NoData]]
    /\ store' = delete(identifier)
    /\ calls' = [calls EXCEPT ![c] =
          <<Call("delete", {<<IdName, identifier>>}, {}, NoEntity, "")>>]
    /\ result' = [result EXCEPT ![c] = Ok(NoEntity)]
    /\ pc' = [pc EXCEPT ![c] = "done"]
    /\ raced' = (raced \/ OthersBusy(c))
    /\ released' = Noted(store')
    /\ UNCHANGED <<entity, filters, excludes>>
    /\ UNCHANGED <<meta, opts, query, paged, context, conv>>

\* A get that takes the record it returns out of the store.
Get_consuming(c, identifier) ==
    /\ pc[c] = "idle"
    /\ op' = [op EXCEPT ![c] = [kind |-> "get", identifier |-> identifier, data |-> NoData]]
    /\ LET got == get(identifier)
       IN  /\ result' = [result EXCEPT ![c] = got.result]
           /\ calls' = [calls EXCEPT ![c] = got.calls]
    /\ pc' = [pc EXCEPT ![c] = "done"]
    /\ raced' = (raced \/ OthersBusy(c))
    /\ store' = delete(identifier)
    /\ UNCHANGED <<entity, filters, excludes>>
    /\ UNCHANGED rest

\* get(identifier), called on its own.
Get(c, identifier) ==
    /\ pc[c] = "idle"
    /\ op' = [op EXCEPT ![c] = [kind |-> "get", identifier |-> identifier, data |-> NoData]]
    /\ LET got == get(identifier)
       IN  /\ result' = [result EXCEPT ![c] = got.result]
           /\ calls' = [calls EXCEPT ![c] = got.calls]
    /\ pc' = [pc EXCEPT ![c] = "done"]
    /\ raced' = (raced \/ OthersBusy(c))
    /\ UNCHANGED <<store, entity, filters, excludes>>
    /\ UNCHANGED rest

\* The operation returns to its caller.
Return(c) ==
    /\ pc[c] = "done"
    /\ pc' = [pc EXCEPT ![c] = "idle"]
    /\ op' = [op EXCEPT ![c] = NoOp]
    /\ entity' = [entity EXCEPT ![c] = NoEntity]
    /\ filters' = [filters EXCEPT ![c] = <<>>]
    /\ excludes' = [excludes EXCEPT ![c] = {}]
    /\ calls' = [calls EXCEPT ![c] = <<>>]
    /\ result' = [result EXCEPT ![c] = NoResult]
    /\ query' = [query EXCEPT ![c] = NoQuery]
    /\ paged' = [paged EXCEPT ![c] = NoPage]
    /\ UNCHANGED <<store, raced>>
    /\ UNCHANGED <<meta, opts, context, conv, released>>

\* What no operation has touched yet.
Idle ==
    /\ pc = [c \in Callers |-> "idle"]
    /\ op = [c \in Callers |-> NoOp]
    /\ entity = [c \in Callers |-> NoEntity]
    /\ filters = [c \in Callers |-> <<>>]
    /\ excludes = [c \in Callers |-> {}]
    /\ calls = [c \in Callers |-> <<>>]
    /\ result = [c \in Callers |-> NoResult]
    /\ raced = FALSE
    /\ query = [c \in Callers |-> NoQuery]
    /\ paged = [c \in Callers |-> NoPage]
    /\ context = [c \in Callers |-> Unset]

\* The repository of the Role schema over an empty store.
Init ==
    /\ store = <<>>
    /\ meta = RoleMeta
    /\ opts = RepositorySchemaOpts(RoleMeta, RoleMeta.cls)
    /\ Idle
    /\ released = NoHistory
    /\ conv = NoConv

Step(c) ==
    \/ \E kwargs \in ValidEntities : CreateStart(c, kwargs)
    \/ \E i \in IDS, data \in UpdateData : UpdateStart(c, i, data)
    \/ ValidateStep(c)
    \/ CreateWrite(c)
    \/ UpdateWrite(c)
    \/ \E i \in IDS : Delete(c, i)
    \/ \E i \in IDS : Get(c, i)
    \/ Return(c)

\* Two callers each create one entity, and their steps interleave at the
\* backend calls.
RaceNext ==
    \E c \in Callers :
        \/ \E kwargs \in ValidEntities : CreateStart(c, kwargs)
        \/ ValidateStep(c)
        \/ CreateWrite(c)
RaceSpec == Init /\ [][RaceNext]_vars

\* One operation at a time: an operation runs to its end before the next
\* one starts.
Serial == CHOOSE c \in Callers : TRUE
Next == Step(Serial)
Spec == Init /\ [][Next]_vars

\* --------------------------------------------------------------- queries

\* filter that never turns to the schema's default order_by.
resolve_order_by_without_default(order_by) ==
    IF ~ IsIterable(order_by) THEN ListOf(order_by) ELSE order_by

\* filter, the order_by clause: the schema's default for a falsy
\* argument, and a list around what is not iterable.
resolve_order_by(order_by) ==
    LET chosen == IF ~ Truthy(order_by) THEN opts.order_by ELSE order_by
    IN  IF ~ IsIterable(chosen) THEN ListOf(chosen) ELSE chosen

\* A conversion loop that leaves the last record out.
entity_items_short(items) ==
    [k \in 1..(Len(items) - 1) |-> to_entity(items[k])]

\* filter, the conversion loop: the entity of each record, in order.
entity_items(items) == [k \in 1..Len(items) |-> to_entity(items[k])]

\* What filter is called with.
PerPages == {1, 2, DefaultPerPage}
OrderBys ==
    {PyTuple(<<>>), PyNone, PyStr(""),
     PyTuple(<<"created_by">>), PyTuple(<<"-id">>), PyTuple(<<"created_by", "-id">>),
     PyStr("created_by"), PyStr("-id"), PyObj("created_by")}
ExcludeSets == {{}, {<<"id", "1">>}}
FilterSets == {{}, {<<"created_by", "c1">>}, {<<"created_by", "anonymous">>}}

\* filter(page, per_page, order_by, _excludes, **filters)
Filter(c, page, per_page, order_by, excl, flt) ==
    LET given == Query(page, per_page, order_by, excl, flt)
        sent == Query(page, per_page, resolve_order_by(order_by), excl, flt)
    IN  /\ pc[c] = "idle"
        /\ op' = [op EXCEPT ![c] = [kind |-> "filter", identifier |-> None, data |-> NoData]]
        /\ query' = [query EXCEPT ![c] = [given |-> given, sent |-> sent]]
        /\ \E results \in query_results(sent) :
              IF results.error
                 THEN /\ paged' = [paged EXCEPT ![c] = results]
                      /\ result' = [result EXCEPT ![c] = BackendError]
                      /\ calls' = [calls EXCEPT ![c] =
                            <<Call("_filter_objects", flt, excl, NoEntity, "error")>>]
                 ELSE LET items == entity_items(results.page.items)
                      IN  /\ paged' = [paged EXCEPT ![c] =
                                [results EXCEPT !.page.items = items]]
                          /\ result' = [result EXCEPT ![c] = Ok(NoEntity)]
                          /\ calls' = [calls EXCEPT ![c] =
                                <<Call("_filter_objects", flt, excl, NoEntity, "")>>
                                \o [k \in 1..Len(items) |->
                                       Call("to_entity", {}, {}, items[k], "")]]
        /\ pc' = [pc EXCEPT ![c] = "done"]
        /\ raced' = (raced \/ OthersBusy(c))
        /\ UNCHANGED <<store, entity, filters, excludes, meta, opts, context, conv,
                       released>>

\* What exists returns.
Answer(b) ==
    [status |-> IF b THEN "True" ELSE "False", field |-> None, ent |-> NoEntity]

\* exists(_excludes, **filters), called on its own.
Exists(c, excl, flt) ==
    /\ pc[c] = "idle"
    /\ op' = [op EXCEPT ![c] = [kind |-> "exists", identifier |-> None, data |-> NoData]]
    /\ query' = [query EXCEPT ![c] =
          [given |-> Query(DefaultPage, DefaultPerPage, PyTuple(<<>>), excl, flt),
           sent |-> Query(DefaultPage, DefaultPerPage, PyTuple(<<>>), excl, flt)]]
    /\ result' = [result EXCEPT ![c] = Answer(exists(excl, flt))]
    /\ calls' = [calls EXCEPT ![c] = <<Call("_filter_objects", flt, excl, NoEntity, "")>>]
    /\ pc' = [pc EXCEPT ![c] = "done"]
    /\ raced' = (raced \/ OthersBusy(c))
    /\ UNCHANGED <<store, entity, filters, excludes, paged, meta, opts, context, conv,
                   released>>

\* The accounts that create records.
Accounts == {"anonymous"} \cup Callers

\* The stores that are queried: n records numbered from "1", all created
\* by "anonymous" or by the accounts in turn.
StoredName(i) == IF i = 1 THEN "a" ELSE IF i = 2 THEN "b" ELSE None
InTurn(i) == <<"c2", "anonymous", "c1">>[(i % 3) + 1]
FilterStores ==
    {[i \in 1..n |->
        from_entity([id |-> ToString(i), name |-> StoredName(i), email |-> None,
                     created_by |-> IF turns THEN InTurn(i) ELSE "anonymous"])] :
     n \in 0..MaxRecords, turns \in BOOLEAN}

\* The schemas that are queried: the Role schema with and without a
\* default order_by.
FilterMetas ==
    {m \in Metas : /\ m.cls = "RoleSchema" /\ m.entity = "Role"
                    /\ m.schema_name = Unset /\ m.bind = Unset}

FilterInit ==
    /\ store \in FilterStores
    /\ meta \in FilterMetas
    /\ opts = RepositorySchemaOpts(meta, meta.cls)
    /\ Idle
    /\ released = NoHistory
    /\ conv = NoConv

FilterNext ==
    \/ \E page \in 1..MaxPage, per_page \in PerPages, order_by \in OrderBys,
          excl \in ExcludeSets, flt \in FilterSets :
          Filter(Serial, page, per_page, order_by, excl, flt)
    \/ \E excl \in ExcludeSets, flt \in FilterSets : Exists(Serial, excl, flt)
    \/ Return(Serial)
FilterSpec == FilterInit /\ [][FilterNext]_vars

\* ----------------------------------------------------- tasks with context

\* A use case that reads the account from the context of another task.
process_request_shared_context(c, name) ==
    LET other == CHOOSE d \in Callers : d # c
    IN  [id |-> None, name |-> name, email |-> None,
         created_by |-> IF context[other] = Unset THEN "anonymous" ELSE context[other]]

\* CreateUseCase2.process_request: the data of the request, with
\* created_by = getattr(context, 'account', 'anonymous') read from the
\* context of the task's own thread.
process_request(c, name) ==
    [id |-> None, name |-> name, email |-> None,
     created_by |-> IF context[c] = Unset THEN "anonymous" ELSE context[c]]

\* The names the tasks create their entities with.
TaskNames == {"a", "b"}

\* The schema of the tasks' entity.
ThreadedDogMeta ==
    [cls |-> "ThreadedDogModel", entity |-> "ThreadedDog", schema_name |-> Unset, bind |-> Unset,
     order_by |-> [set |-> FALSE, value |-> PyTuple(<<>>)]]

\* run_create_task, first step: context.set_context({'account': thread_name}),
\* which a task with no thread_name leaves out.
SetContext(c) ==
    /\ pc[c] = "idle"
    /\ context[c] = Unset
    /\ context' = [context EXCEPT ![c] = c]
    /\ UNCHANGED <<store, pc, op, entity, filters, excludes, calls, result, raced,
                   meta, opts, query, paged, conv, released>>

\* run_create_task, second step: the use case builds the request data and
\* calls create; no two tasks use the same name.
Perform(c, name) ==
    /\ \A d \in Callers \ {c} : op[d].kind = "none" \/ op[d].data.name # name
    /\ CreateStart(c, process_request(c, name))

CtxInit ==
    /\ store = <<>>
    /\ meta = ThreadedDogMeta
    /\ opts = RepositorySchemaOpts(ThreadedDogMeta, ThreadedDogMeta.cls)
    /\ Idle
    /\ released = NoHistory
    /\ conv = NoConv

\* The tasks run at once, each to the end of its create, and their steps
\* interleave at the backend calls.
CtxNext ==
    \E c \in Callers :
        \/ SetContext(c)
        \/ \E name \in TaskNames : Perform(c, name)
        \/ ValidateStep(c)
        \/ CreateWrite(c)
CtxSpec == CtxInit /\ [][CtxNext]_vars

\* ----------------------------------------------------------- conversions

\* The schemas whose conversions are exercised, and their fields in
\* column order.
Schemas == {"Role", "ArrayUser", "IntegerArrayUser"}
ArrayUser_fields == <<"id", "email", "roles">>

\* The lists of at most MaxRoles elements.
Lists(content) == UNION {[1..n -> content] : n \in 0..MaxRoles}

\* The valid entities of a schema.
SchemaEntities(schema) ==
    CASE schema = "Role" -> ValidEntities
      [] schema = "ArrayUser" ->
            [id : IDS, email : {"x"}, roles : Lists({"ADMIN", "USER"})]
      [] schema = "IntegerArrayUser" ->
            [id : IDS, email : {"x"}, roles : Lists({1, 2})]

Reverse(seq) == [k \in 1..Len(seq) |-> seq[Len(seq) + 1 - k]]

\* model_cls.from_entity: the record of an entity, one column per field.
model_from_entity(fields, e) == [i \in 1..Len(fields) |-> e[fields[i]]]

\* A to_entity that reads the roles column from its end.
model_to_entity_reversed(fields, record) ==
    [f \in {fields[i] : i \in 1..Len(fields)} |->
        LET column == record[CHOOSE i \in 1..Len(fields) : fields[i] = f]
        IN  IF f = "roles" THEN Reverse(column) ELSE column]

\* model_cls.to_entity: the entity of a record, each field from its column.
model_to_entity(fields, record) ==
    [f \in {fields[i] : i \in 1..Len(fields)} |->
        record[CHOOSE i \in 1..Len(fields) : fields[i] = f]]

\* The conversions of a schema.
schema_from_entity(schema, e) ==
    IF schema = "Role" THEN from_entity(e) ELSE model_from_entity(ArrayUser_fields, e)
schema_to_entity(schema, record) ==
    IF schema = "Role" THEN to_entity(record) ELSE model_to_entity(ArrayUser_fields, record)

\* user_model_obj = model_cls.from_entity(user)
FromEntity ==
    /\ conv.stage = "entity"
    /\ conv' = [conv EXCEPT !.stage = "record",
                            !.record = schema_from_entity(conv.schema, conv.e)]
    /\ UNCHANGED <<store, pc, op, entity, filters, excludes, calls, result, raced,
                   meta, opts, query, paged, context, released>>

\* user_copy = model_cls.to_entity(user_model_obj)
ToEntity ==
    /\ conv.stage = "record"
    /\ conv' = [conv EXCEPT !.stage = "back",
                            !.back = schema_to_entity(conv.schema, conv.record)]
    /\ UNCHANGED <<store, pc, op, entity, filters, excludes, calls, result, raced,
                   meta, opts, query, paged, context, released>>

\* A valid entity of one of the schemas, before its conversion.
ConvInit ==
    /\ store = <<>>
    /\ meta = RoleMeta
    /\ opts = RepositorySchemaOpts(RoleMeta, RoleMeta.cls)
    /\ Idle
    /\ released = NoHistory
    /\ \E schema \in Schemas : \E e \in SchemaEntities(schema) :
          conv = [stage |-> "entity", schema |-> schema, e |-> e,
                  record |-> <<>>, back |-> <<>>]

ConvNext == FromEntity \/ ToEntity
ConvSpec == ConvInit /\ [][ConvNext]_vars

\* ------------------------------------------------------ schema resolution

\* The options of a schema class that is not resolved yet.
Unresolved == Resolved("unresolved", None, None, None, PyTuple(<<>>))

\* The schema class is built: its options are resolved from its Meta.
Resolve ==
    /\ opts = Unresolved
    /\ opts' = RepositorySchemaOpts(meta, meta.cls)
    /\ UNCHANGED <<store, pc, op, entity, filters, excludes, calls, result, raced,
                   meta, query, paged, context, conv, released>>

OptsInit ==
    /\ store = <<>>
    /\ meta \in Metas
    /\ opts = Unresolved
    /\ Idle
    /\ released = NoHistory
    /\ conv = NoConv

OptsNext == Resolve
OptsSpec == OptsInit /\ [][OptsNext]_vars

\* ------------------------------------------------- the life of a record

\* What the operations are called with where the released values are
\* recorded: entities and updates that leave the email out, with a name
\* or with None for it.
LifeEntities == {e \in ValidEntities : e["email"] = None /\ e["name"] # ""}
LifeData == {d \in UpdateData : d["email"] = Unset /\ d["name"] # ""}

\* A repository over an empty store that records the released values.
LifeInit ==
    /\ store = <<>>
    /\ meta = RoleMeta
    /\ opts = RepositorySchemaOpts(RoleMeta, RoleMeta.cls)
    /\ Idle
    /\ conv = NoConv
    /\ released = History

\* Every operation of the repository, one at a time.
LifeNext ==
    \/ \E kwargs \in LifeEntities : CreateStart(Serial, kwargs)
    \/ \E i \in IDS, data \in LifeData : UpdateStart(Serial, i, data)
    \/ ValidateStep(Serial)
    \/ CreateWrite(Serial)
    \/ UpdateWrite(Serial)
    \/ \E i \in IDS : Delete(Serial, i)
    \/ \E i \in IDS : Get(Serial, i)
    \/ \E per_page \in PerPages, order_by \in {PyNone, PyTuple(<<"-id">>)} :
          Filter(Serial, DefaultPage, per_page, order_by, {}, {})
    \/ \E i \in IDS : Exists(Serial, {}, {<<IdName, i>>})
    \/ Return(Serial)
LifeSpec == LifeInit /\ [][LifeNext]_vars

\* ------------------------------------------------------------ properties

UniqueNames == {unique_fields[i].name : i \in 1..Len(unique_fields)}

\* Two stored records hold the same non-empty value in a unique field.
HasDuplicate ==
    \E k, l \in 1..Len(store) :
        /\ k < l
        /\ \E f \in UniqueNames :
              /\ store[k][ColumnOf(f)] = store[l][ColumnOf(f)]
              /\ store[k][ColumnOf(f)] \notin Field_empty_values

CallsOf(c, callee) == {k \in 1..Len(calls[c]) : calls[c][k].call = callee}
ExistsCalls(c) == SelectSeq(calls[c], LAMBDA x : x.call = "exists")
Wrote(c) == CallsOf(c, "_create_object") \cup CallsOf(c, "_update_object") # {}

\* The caller is in a create or an update that holds its entity.
Validating(c) ==
    /\ op[c].kind \in {"create", "update"}
    /\ pc[c] \in {"validate", "write", "done"}
    /\ result[c].status # "ObjectNotFoundError"

\* The stored records other than the one the operation is about.
OtherRows(c) ==
    {k \in 1..Len(store) :
        op[c].kind = "create" \/ store[k][id_field] # op[c].identifier}

\* The unique fields in which the entity holds the value of another record.
ConflictFields(c) ==
    {f \in UniqueNames :
        /\ entity[c][f] \notin Field_empty_values
        /\ \E k \in OtherRows(c) : store[k][ColumnOf(f)] = entity[c][f]}

\* The lookups validate_unique owes the entity: its non-empty unique
\* fields in declaration order, without the identifier on an update.
ExpectedLookups(c) ==
    SelectSeq(declared_fields,
              LAMBDA d : /\ d.unique
                         /\ entity[c][d.name] \notin Field_empty_values
                         /\ ~ (op[c].kind = "update" /\ d.identifier))

ExpectedExcludes(c) ==
    IF op[c].kind = "update" /\ entity[c][IdName] \notin Field_empty_values
       THEN {<<IdName, entity[c][IdName]>>} ELSE {}

\* C1 (as claimed): a create or update whose entity holds, in a non-empty
\* unique field, the value of a different stored record never gets to its
\* write primitive: it ends with a ValidationError keyed by such a field
\* and the store as it was.
C1_ConflictAlwaysRejected ==
    \A c \in Callers :
        (Validating(c) /\ ~Wrote(c) /\ ConflictFields(c) # {}) =>
            /\ pc[c] # "write"
            /\ pc[c] = "done" =>
                  /\ result[c].status = "ValidationError"
                  /\ result[c].field \in ConflictFields(c)

C3_NoSelfConflict ==
    \A c \in Callers :
        (/\ op[c].kind = "update" /\ pc[c] = "done"
         /\ result[c].status # "ObjectNotFoundError"
         /\ entity[c][IdName] = op[c].identifier) =>
            IF result[c].status = "ValidationError"
               THEN \E k \in 1..Len(store) :
                       /\ store[k][id_field] # op[c].identifier
                       /\ store[k][ColumnOf(result[c].field)] = entity[c][result[c].field]
               ELSE /\ result[c].status = "ok"
                    /\ calls[c][Len(calls[c])] =
                          Call("_update_object", {}, {}, entity[c], "")

\* An update that re-assigns a unique field the value it already has has
\* succeeded.
C3_Witness ==
    \E c \in Callers :
        /\ op[c].kind = "update" /\ pc[c] = "done" /\ result[c].status = "ok"
        /\ op[c].data[IdName] \in {Unset, op[c].identifier}
        /\ op[c].data["name"] \notin Field_empty_values \cup {Unset}
        /\ Len(calls[c]) >= 2 /\ calls[c][2].call = "to_entity"
        /\ calls[c][2].ent["name"] = op[c].data["name"]

\* C4: the check and the write of a create are separate steps with nothing
\* held between them: two stored records share a unique value only when
\* the creates ran interleaved, with every existence check of both answered
\* false and both _create_object calls made.
C4_DuplicateOnlyByRace ==
    HasDuplicate =>
        /\ raced
        /\ \A c \in Callers :
              /\ Wrote(c)
              /\ \A k \in CallsOf(c, "exists") : calls[c][k].ret = "False"

\* Both callers created an entity with the same name, both checks saw no
\* match, and both records are stored.
C4_Witness ==
    /\ HasDuplicate
    /\ \A c \in Callers :
          /\ pc[c] = "done" /\ result[c].status = "ok"
          /\ CallsOf(c, "_create_object") # {}
          /\ \E k \in CallsOf(c, "exists") :
                calls[c][k].flt = {<<"name", entity[c]["name"]>>}
    /\ \A c, d \in Callers : entity[c]["name"] = entity[d]["name"]

\* C5: a unique field that holds an empty value gets no exists call, and
\* the operation is not rejected on account of it.
C5_EmptySkipped ==
    \A c \in Callers : \A f \in UniqueNames :
        (Validating(c) /\ entity[c][f] \in Field_empty_values) =>
            /\ \A k \in CallsOf(c, "exists") : \A p \in calls[c][k].flt : p[1] # f
            /\ ~ (result[c].status = "ValidationError" /\ result[c].field = f)

\* A create with an empty unique field has succeeded beside a stored
\* record that holds an empty value in the same field.
C5_Witness ==
    \E c \in Callers : \E f \in UniqueNames :
        /\ op[c].kind = "create" /\ pc[c] = "done" /\ result[c].status = "ok"
        /\ entity[c][f] \in Field_empty_values
        /\ Len(store) = 2
        /\ store[1][ColumnOf(f)] \in Field_empty_values
        /\ store[2] = from_entity(entity[c])

\* The stored records held under an identifier.
RowsOf(identifier) == {k \in 1..Len(store) : store[k][id_field] = identifier}

\* C6: get fails with ObjectNotFoundError, without a to_entity call, when
\* no record is held under the identifier; with exactly one it returns the
\* entity whose fields are that record's and whose identifier is the one
\* asked for.
C6_Get ==
    \A c \in Callers :
        (op[c].kind = "get" /\ pc[c] = "done") =>
            /\ RowsOf(op[c].identifier) = {} =>
                  /\ result[c].status = "ObjectNotFoundError"
                  /\ CallsOf(c, "to_entity") = {}
            /\ \A k \in RowsOf(op[c].identifier) :
                  RowsOf(op[c].identifier) = {k} =>
                      /\ result[c].status = "ok"
                      /\ \A f \in FieldNames : result[c].ent[f] = store[k][ColumnOf(f)]
                      /\ result[c].ent[IdName] = op[c].identifier
                      /\ Cardinality(CallsOf(c, "to_entity")) = 1

\* get has returned the second of two stored records.
C6_Witness ==
    \E c \in Callers :
        /\ op[c].kind = "get" /\ pc[c] = "done" /\ result[c].status = "ok"
        /\ Len(store) = 2
        /\ RowsOf(op[c].identifier) = {2}

\* C7: validate_unique looks the non-empty unique fields up in declaration
\* order and stops at the first match: every lookup before the last
\* answered false, and a lookup that answers true is the last one and
\* alone keys the ValidationError.
C7_FirstConflictOnly ==
    \A c \in Callers :
        Validating(c) =>
            LET ex == ExistsCalls(c)
                want == ExpectedLookups(c)
            IN  /\ Len(ex) <= Len(want)
                /\ \A k \in 1..Len(ex) :
                      /\ ex[k].flt = {<<want[k].name, entity[c][want[k].name]>>}
                      /\ k < Len(ex) => ex[k].ret = "False"
                /\ (Len(ex) > 0 /\ ex[Len(ex)].ret = "True") =>
                      /\ pc[c] = "done"
                      /\ result[c] = ValidationError(want[Len(ex)].name)
                /\ result[c].status = "ValidationError" =>
                      (Len(ex) > 0 /\ ex[Len(ex)].ret = "True")

\* A ValidationError was raised for one field while a later unique field
\* of the entity conflicts too and was never looked up.
C7_Witness ==
    \E c \in Callers :
        /\ Validating(c) /\ result[c].status = "ValidationError"
        /\ \E k \in 1..Len(ExpectedLookups(c)) :
              /\ k > Len(ExistsCalls(c))
              /\ ExpectedLookups(c)[k].name \in ConflictFields(c)

\* A stored record the exclude-set leaves in the lookups.
Looked(c, k) ==
    ~ (ExpectedExcludes(c) # {} /\ store[k][id_field] = entity[c][IdName])

\* C8: every exists call of validate_unique carries one field/value and
\* the whole exclude-set, and the entity gets to its write only when no
\* record matches any one of its unique fields alone.
C8_PerFieldLookups ==
    \A c \in Callers :
        Validating(c) =>
            /\ \A k \in CallsOf(c, "exists") :
                  /\ Cardinality(calls[c][k].flt) = 1
                  /\ calls[c][k].exc = ExpectedExcludes(c)
            /\ pc[c] = "write" =>
                  \A i \in 1..Len(ExpectedLookups(c)) : \A k \in 1..Len(store) :
                      Looked(c, k) =>
                          store[k][ColumnOf(ExpectedLookups(c)[i].name)]
                              # entity[c][ExpectedLookups(c)[i].name]

\* An entity was rejected though no single stored record matches all of
\* its unique fields together.
C8_Witness ==
    \E c \in Callers :
        /\ Validating(c) /\ result[c].status = "ValidationError"
        /\ Len(ExpectedLookups(c)) >= 2
        /\ \A k \in 1..Len(store) :
              \E i \in 1..Len(ExpectedLookups(c)) :
                  store[k][ColumnOf(ExpectedLookups(c)[i].name)]
                      # entity[c][ExpectedLookups(c)[i].name]

\* C9: a call of _create_object or _update_object comes, in its own
\* operation, after a validate_unique run over the same entity that passed
\* with every lookup answered false; delete makes no lookup and runs no
\* validation.
C9_ValidatedBeforeWrite ==
    \A c \in Callers :
        /\ \A k \in CallsOf(c, "_create_object") \cup CallsOf(c, "_update_object") :
              /\ \E j \in CallsOf(c, "validate_unique") :
                    /\ j < k
                    /\ calls[c][j].ret = "passed"
                    /\ calls[c][j].ent = calls[c][k].ent
              /\ \A j \in CallsOf(c, "exists") : j < k /\ calls[c][j].ret = "False"
        /\ pc[c] = "write" =>
              (calls[c] # <<>> /\ calls[c][Len(calls[c])].ret = "passed")
        /\ op[c].kind = "delete" =>
              CallsOf(c, "exists") \cup CallsOf(c, "validate_unique")
                  \cup CallsOf(c, "_filter_objects") = {}

\* A write primitive was called after lookups that found nothing.
C9_Witness ==
    \E c \in Callers :
        /\ pc[c] = "done" /\ Wrote(c)
        /\ CallsOf(c, "exists") # {}

Filtered(c) == pc[c] = "done" /\ op[c].kind = "filter"
Asked(c) == pc[c] = "done" /\ op[c].kind = "exists"

\* What filter can return for a query handed to the primitive as it is.
Returned(q) ==
    {IF r.error THEN r ELSE [r EXCEPT !.page.items = entity_items(r.page.items)] :
     r \in query_results(q)}

\* The records the primitive returns for the query that was sent.
RawPage(c) ==
    _filter_objects(query[c].sent.page, query[c].sent.per_page,
                    query[c].sent.order_by, query[c].sent.excl, query[c].sent.flt)

\* The stored records that match the caller's filters and excludes.
MatchingRows(c) ==
    {k \in 1..Len(store) : Matches(store[k], query[c].given.excl, query[c].given.flt)}

Max(a, b) == IF a > b THEN a ELSE b

\* C11: filter called with a scalar order_by key k (a key that is not a
\* sequence, a field-name string included) hands the query primitive the
\* order_by that filter called with [k] hands it, and returns what that
\* call returns.
C11_ScalarKeyAsList ==
    \A c \in Callers :
        LET q == query[c].given
            listed == [q EXCEPT !.order_by = ListOf(q.order_by)]
        IN  (Filtered(c) /\ q.order_by.kind \in {"str", "obj"} /\ Truthy(q.order_by))
            => /\ query[c].sent = listed
               /\ paged[c] \in Returned(listed)

\* C12: filter called without an order_by, or with an empty one, hands the
\* query primitive the schema's default order_by (the Meta's order_by, or
\* the empty sequence when the Meta declares none); a non-empty order_by
\* of the caller is handed on in place of the default, as it is or as a
\* list around it.
C12_DefaultOrderBy ==
    \A c \in Callers :
        Filtered(c) =>
            /\ opts.order_by = IF meta.order_by.set THEN meta.order_by.value
                                                     ELSE PyTuple(<<>>)
            /\ ~ Truthy(query[c].given.order_by)
                  => query[c].sent.order_by = opts.order_by
            /\ Truthy(query[c].given.order_by)
                  => query[c].sent.order_by \in {query[c].given.order_by,
                                                  ListOf(query[c].given.order_by)}
            /\ (Truthy(query[c].given.order_by) /\ query[c].given.order_by.kind = "tuple")
                  => query[c].sent.order_by = query[c].given.order_by

\* A filter without order_by was sent the default "-id" of the schema and
\* returned the records in that order.
C12_Witness ==
    \E c \in Callers :
        /\ Filtered(c)
        /\ query[c].given.order_by = PyNone
        /\ query[c].sent.order_by = PyTuple(<<"-id">>)
        /\ Len(paged[c].page.items) > 1
        /\ paged[c].page.items[1].id = ToString(Len(store))

\* C13: filter returns the Pagination of the query primitive with the
\* record at each position replaced by its entity: as many items, in the
\* same order, one to_entity call per returned record, and page, per_page
\* and total as the primitive gave them.
C13_ItemsConverted ==
    \A c \in Callers :
        (Filtered(c) /\ ~ paged[c].error) =>
            LET raw == RawPage(c)
                conversions == SelectSeq(calls[c], LAMBDA x : x.call = "to_entity")
            IN  /\ Len(paged[c].page.items) = Len(raw.items)
                /\ \A k \in 1..Len(raw.items) :
                      /\ paged[c].page.items[k] = to_entity(raw.items[k])
                      /\ conversions[k].ent = to_entity(raw.items[k])
                /\ Len(conversions) = Len(raw.items)
                /\ paged[c].page.page = raw.page
                /\ paged[c].page.per_page = raw.per_page
                /\ paged[c].page.total = raw.total

\* A filter returned two entities in the order of the records, out of
\* more records than the page holds.
C13_Witness ==
    \E c \in Callers :
        /\ Filtered(c)
        /\ ~ paged[c].error
        /\ Len(paged[c].page.items) = 2
        /\ paged[c].page.total > 2
        /\ paged[c].page.items[1] # paged[c].page.items[2]
        /\ Cardinality(CallsOf(c, "to_entity")) = 2

\* C14: over a store with n matching records, filter(page, per_page) with
\* page >= 1 and per_page > 0 returns total = n whatever the page size,
\* and min(per_page, max(0, n - (page - 1) * per_page)) items, so never
\* more than per_page.
C14_PageBounds ==
    \A c \in Callers :
        (Filtered(c) /\ ~ paged[c].error) =>
            LET n == Cardinality(MatchingRows(c))
                page == query[c].given.page
                per_page == query[c].given.per_page
            IN  /\ paged[c].page.total = n
                /\ Len(paged[c].page.items)
                      = Min(per_page, Max(0, n - (page - 1) * per_page))
                /\ Len(paged[c].page.items) <= per_page

\* filter(page=2, per_page=2) over 5 records returned 2 items and total 5.
C14_Witness ==
    \E c \in Callers :
        /\ Filtered(c)
        /\ Len(store) = 5
        /\ query[c].given.page = 2
        /\ query[c].given.per_page = 2
        /\ Len(paged[c].page.items) = 2
        /\ paged[c].page.total = 5

\* C15: exists(excludes, filters) returns true exactly when a stored
\* record matches every filter and does not match the excludes, and false
\* when none does, never an error; the answer is whether the Pagination
\* of the query primitive has items.
C15_ExistsAnswer ==
    \A c \in Callers :
        Asked(c) =>
            /\ result[c] = Answer(MatchingRows(c) # {})
            /\ result[c] = Answer(RawPage(c).items # <<>>)
            /\ result[c].status \in {"True", "False"}
            /\ calls[c] = <<Call("_filter_objects", query[c].given.flt,
                                  query[c].given.excl, NoEntity, "")>>

\* exists answered false over a store whose only record with the value
\* asked for is the excluded one.
C15_Witness ==
    \E c \in Callers :
        /\ Asked(c)
        /\ result[c] = Answer(FALSE)
        /\ query[c].given.excl # {}
        /\ \E k \in 1..Len(store) : Matches(store[k], {}, query[c].given.flt)

\* ---------------------------------------------------- context properties

\* The account a task runs under.
AccountOf(c) == IF context[c] = Unset THEN "anonymous" ELSE context[c]

\* The stored records with the name the task creates its entity with.
RowsNamed(c) ==
    {k \in 1..Len(store) : store[k][ColumnOf("name")] = op[c].data.name}

ConvFields ==
    IF conv.schema = "Role" THEN FieldNames
    ELSE {ArrayUser_fields[i] : i \in 1..Len(ArrayUser_fields)}

C18_Resolution ==
    opts # Unresolved =>
        IF meta.entity \notin EntityClasses
           THEN opts.error = "ConfigurationError"
           ELSE /\ opts.error = "none"
                /\ opts.entity_cls = meta.entity
                /\ opts.schema_name = IF meta.schema_name \in {Unset, ""}
                                          THEN underscore(meta.cls)
                                          ELSE meta.schema_name
                /\ opts.bind = IF meta.bind = Unset THEN "default" ELSE meta.bind
                /\ opts.order_by = IF meta.order_by.set THEN meta.order_by.value
                                                         ELSE PyTuple(<<>>)

\* ----------------------------------------------------- update properties

\* The callees of the caller's calls, in the order they were made.
Callees(c) == [k \in 1..Len(calls[c]) |-> calls[c][k].call]

\* The caller's update has come to its end.
Updated(c) == pc[c] = "done" /\ op[c].kind = "update"

\* The calls of an update are get's (the lookup by identifier and the
\* conversion of the record), then entity.update, then validate_unique
\* in update mode (its lookups, with the identifier in the excludes), then
\* _update_object; a failed get is followed by nothing.
UpdateCallOrder(c) ==
    LET names == Callees(c)
        n == Len(names)
    IN  /\ n > 0 => calls[c][1] = Call("_filter_objects",
                                       {<<IdName, op[c].identifier>>}, {}, NoEntity, "")
        /\ n > 1 => names[2] = "to_entity"
        /\ n > 2 => /\ names[3] = "entity.update"
                    /\ calls[c][3].ent = entity_update(calls[c][2].ent, op[c].data)
        /\ \A k \in 4..n :
              /\ names[k] \in {"exists", "validate_unique", "_update_object"}
              /\ names[k] = "exists" => (k = 4 \/ names[k - 1] = "exists")
              /\ names[k] = "validate_unique"
                    => /\ k = 4 \/ names[k - 1] = "exists"
                       /\ calls[c][k].exc = {<<IdName, calls[c][3].ent[IdName]>>}
              /\ names[k] = "_update_object"
                    => /\ k = n
                       /\ names[k - 1] = "validate_unique"
                       /\ calls[c][k - 1].ret = "passed"
                       /\ calls[c][k].ent = calls[c][3].ent

\* C19: update(identifier, data) for an identifier with no stored record
\* fails with the ObjectNotFoundError of get before entity.update,
\* validate_unique (no existence check) or _update_object is called, and
\* leaves the store as it was; a successful update calls get, then
\* entity.update(data), then validate_unique(create=False), then
\* _update_object.
C19_UpdateOrder ==
    /\ [](\A c \in Callers :
            /\ op[c].kind = "update" => UpdateCallOrder(c)
            /\ (Updated(c) /\ RowsOf(op[c].identifier) = {} /\ ~ Wrote(c))
                  => /\ result[c] = ObjectNotFoundError
                     /\ Callees(c) = <<"_filter_objects">>
            /\ (Updated(c) /\ result[c] = ObjectNotFoundError)
                  => Callees(c) = <<"_filter_objects">>
            /\ (Updated(c) /\ result[c].status = "ok")
                  => /\ Len(calls[c]) > 4
                     /\ Callees(c)[Len(calls[c])] = "_update_object")
    /\ [][\A c \in Callers :
            (op'[c].kind = "update" /\ result'[c] = ObjectNotFoundError)
                => store' = store]_vars

\* An update of an identifier that no record is stored under has failed
\* over a store that holds another record.
C19_Witness ==
    \E c \in Callers :
        /\ Updated(c)
        /\ result[c] = ObjectNotFoundError
        /\ store # <<>>
        /\ RowsOf(op[c].identifier) = {}
        /\ op[c].data # NoData

\* C20: in update(i, data) with data changing the identifier from i to
\* another value j, uniqueness validation still leaves the entity's own
\* stored record (the one stored under i) out, so the update is not
\* rejected with a uniqueness error on account of the entity's own,
\* unchanged unique values.
C20_OwnRowLeftOut ==
    \A c \in Callers :
        (/\ Updated(c)
         /\ op[c].data[IdName] \notin {Unset, op[c].identifier}
         /\ result[c].status = "ValidationError")
        => \E k \in 1..Len(store) :
              /\ store[k][id_field] # op[c].identifier
              /\ store[k][ColumnOf(result[c].field)] = entity[c][result[c].field]

\* ------------------------------------------------------- life properties

\* The unique fields in which the entity holds a value that a delete or
\* an update released earlier.
ReusedFields(c) ==
    {f \in UniqueNames : <<f, entity[c][f]>> \in released.values}

ReadCallees == {"_filter_objects", "to_entity", "entity.update", "exists", "validate_unique"}

\* C22: get, filter and exists, and a run of validate_unique whether it
\* passes or fails, call the query primitive only, never _create_object,
\* _update_object or delete: in every reachable state they leave the
\* stored records and every stored value as they were.
C22_ReadsLeaveStore ==
    /\ [](\A c \in Callers :
            /\ op[c].kind \in {"get", "filter", "exists"}
                  => \A k \in 1..Len(calls[c]) :
                        calls[c][k].call \in {"_filter_objects", "to_entity"}
            /\ (Validating(c) /\ (pc[c] \in {"validate", "write"}
                                    \/ result[c].status = "ValidationError"))
                  => \A k \in 1..Len(calls[c]) : calls[c][k].call \in ReadCallees)
    /\ [][store' # store =>
            \E c \in Callers :
                \/ /\ pc[c] = "write" /\ pc'[c] = "done"
                   /\ calls'[c][Len(calls'[c])].call \in {"_create_object", "_update_object"}
                \/ /\ pc[c] = "idle" /\ op'[c].kind = "delete"
                   /\ calls'[c] = <<Call("delete", {<<IdName, op'[c].identifier>>},
                                         {}, NoEntity, "")>>]_vars

\* A validate_unique run has failed over two stored records, with its
\* lookups made and both records still in the store.
C22_Witness ==
    \E c \in Callers :
        /\ Validating(c) /\ pc[c] = "done"
        /\ result[c].status = "ValidationError"
        /\ CallsOf(c, "exists") # {}
        /\ ~ Wrote(c)
        /\ Len(store) = 2
====
